---- MODULE Spec2Model ----
(***************************************************************************)
(* The auction state machine of auction_agents: the router host, the lot   *)
(* dispenser host_assistant, the bidder step and the adjudicator           *)
(* trademaster, driven by the graph of main_process.py.                    *)
(*                                                                         *)
(* Money is counted in units of 0.05 crore, so 0.25 Cr = 5, 0.75 Cr = 15,  *)
(* 1.5 Cr = 30, 2.0 Cr = 40 and 5.0 Cr = 100.  All prices that occur are   *)
(* multiples of this unit, so the arithmetic of the code is exact.         *)
(***************************************************************************)
EXTENDS Integers, Sequences, FiniteSets, TLC

VARIABLES
    RemainingPlayers,       \* state['RemainingPlayers']: set name -> list of lots
    RemainingSets,          \* state['RemainingSets']: list of set names
    CurrentSet,             \* state['CurrentSet']: set name or "None"
    RemainingPlayersInSet,  \* state['RemainingPlayersInSet']: list of lots or None
    AuctionStatus,          \* state['AuctionStatus']
    CurrentPlayer,          \* state['CurrentPlayer']: lot or "None"
    CurrentBid,             \* state['CurrentBid']: CurrentBidInfo or NoneBid
    OtherTeamBidding,       \* state['OtherTeamBidding']: the round's proposed bids
    Round,                  \* state['Round']
    Holdings,               \* state[team]: list of lots, per team
    Budget,                 \* state[team + '_Budget'], per team
    UnsoldPlayers,          \* state['UnsoldPlayers']: list of lots
    player,                 \* the mutable fields of every Player object
    Messages,               \* state['Messages']: what the last message written says
    pc,                     \* the graph node that runs next
    decision                \* the last value returned by the router host

vars == <<RemainingPlayers, RemainingSets, CurrentSet, RemainingPlayersInSet,
          AuctionStatus, CurrentPlayer, CurrentBid, OtherTeamBidding, Round,
          Holdings, Budget, UnsoldPlayers, player, Messages, pc, decision>>

catalogVars == <<RemainingPlayers, RemainingSets, CurrentSet, RemainingPlayersInSet>>

(***************************************************************************)
(* The bounded catalog: teams, sets, lots and their base prices.           *)
(***************************************************************************)
Teams == {"CSK", "DC"}

Sets == <<"M1", "M2", "AL1">>

Lots == {"p1", "p2", "p3"}

\* RemainingPlayers as load_player_data returns it: AL1 is a set without lots.
Catalog == [s \in {"M1", "M2", "AL1"} |->
              IF s = "M1" THEN <<"p1", "p2">>
              ELSE IF s = "M2" THEN <<"p3">> ELSE <<>>]

\* Player.base_price of each lot: 1.75 Cr, 2.0 Cr and 4.75 Cr.
base_price == [l \in Lots |-> IF l = "p1" THEN 35 ELSE IF l = "p2" THEN 40 ELSE 95]

\* The budget every team starts with.
InitBudget == 130

\* The custom raise amounts a bidder may propose: a missing amount (0), 0.20 Cr
\* (below every minimum) and 0.75 Cr.
RaiseAmounts == {0, 4, 15}

NoneBid == [player |-> "None", team |-> "None",
            current_bid_amount |-> 0, current_raise_amount |-> 0]

NoneList == [none |-> TRUE, items |-> <<>>]

EmptyDict == [kind |-> "dict", items |-> <<>>]

\* The content of a message: the node that wrote it, the lot and the Round it
\* reports, the case it names and whether it reports the round limit exceeded;
\* reasoner: what it reports of generate_purchase_reason ("not called", the
\* "reason" it gave, or its "error"); checked and errors: the teams agent_pool
\* reports as consulted, in order, and those whose decision call failed.
Message(node, lot, round, case, exceeded) ==
    [node |-> node, player |-> lot, round |-> round, case |-> case,
     limit_exceeded |-> exceeded, reasoner |-> "not called",
     checked |-> <<>>, errors |-> {}]

NoMessage == Message("None", "None", 0, "", FALSE)

NewPlayer == [status |-> FALSE, sold_price |-> 0, sold_team |-> "None",
              reason_for_purchase |-> "None",
              team_bid_history |-> [t \in Teams |-> <<>>]]

(***************************************************************************)
(* Helpers on lists.                                                       *)
(***************************************************************************)
Range(s) == {s[i] : i \in 1..Len(s)}

\* list.remove(x): drops the first element equal to x.
Remove(s, x) ==
    LET i == CHOOSE k \in 1..Len(s) : s[k] = x /\ \A j \in 1..(k-1) : s[j] # x
    IN  SubSeq(s, 1, i-1) \o SubSeq(s, i+1, Len(s))

\* [x for x in s if Test(x)], order kept.
RECURSIVE FilterSeq(_, _)
FilterSeq(s, keep) ==
    IF s = <<>> THEN <<>>
    ELSE (IF Head(s) \in keep THEN <<Head(s)>> ELSE <<>>) \o FilterSeq(Tail(s), keep)

Count(s, x) == Cardinality({i \in 1..Len(s) : s[i] = x})

(***************************************************************************)
(* utils.get_raise_amount                                                  *)
(***************************************************************************)
\* Mutant: the first band includes its upper end.
get_raise_amount_inclusive(current_price) ==
    IF current_price <= 40 THEN 5
    ELSE IF current_price <= 100 THEN 15
    ELSE 30

get_raise_amount(current_price) ==
    IF current_price < 40 THEN 5
    ELSE IF current_price < 100 THEN 15
    ELSE 30

(***************************************************************************)
(* Initial state: the agent dict built in main_process.py.                 *)
(***************************************************************************)
Init ==
    /\ RemainingPlayers = Catalog
    /\ RemainingSets = Sets
    /\ CurrentSet = "None"
    /\ RemainingPlayersInSet = NoneList
    /\ AuctionStatus = FALSE
    /\ CurrentPlayer = "None"
    /\ CurrentBid = NoneBid
    /\ OtherTeamBidding = EmptyDict
    /\ Round = 0
    /\ Holdings = [t \in Teams |-> <<>>]
    /\ Budget = [t \in Teams |-> InitBudget]
    /\ UnsoldPlayers = <<>>
    /\ player = [l \in Lots |-> NewPlayer]
    /\ Messages = NoMessage
    /\ pc = "host"
    /\ decision = "None"

(***************************************************************************)
(* host.host: the router, a pure function of the state.                    *)
(***************************************************************************)
\* Mutant: the AuctionStatus rule is applied before the exhaustion rule.
host_decision_status_first(sets, inset, cur, status) ==
    IF status = FALSE THEN "host_assistant"
    ELSE IF sets = <<>> /\ (inset.none \/ inset.items = <<>>) /\ cur = "None"
    THEN "__end__"
    ELSE "bidder_pool"

host_decision(sets, inset, cur, status) ==
    IF sets = <<>> /\ (inset.none \/ inset.items = <<>>) /\ cur = "None"
    THEN "__end__"
    ELSE IF status = FALSE THEN "host_assistant"
    ELSE "bidder_pool"

\* The path map given to add_conditional_edges for the router.
RoutingTable == [k \in {"host_assistant", "bidder_pool", "end"} |->
                    IF k = "end" THEN "END" ELSE k]

\* Mutant: the router records its decision in AuctionStatus.
host_marks_active ==
    /\ pc = "host"
    /\ decision' = host_decision(RemainingSets, RemainingPlayersInSet,
                                 CurrentPlayer, AuctionStatus)
    /\ pc' = IF decision' \in DOMAIN RoutingTable
             THEN RoutingTable[decision'] ELSE "KeyError"
    /\ AuctionStatus' = (decision' = "bidder_pool")
    /\ UNCHANGED <<catalogVars, CurrentPlayer, CurrentBid,
                   OtherTeamBidding, Round, Holdings, Budget, UnsoldPlayers, player,
                   Messages>>

\* The graph node "host" followed by its conditional edge.
host ==
    /\ pc = "host"
    /\ decision' = host_decision(RemainingSets, RemainingPlayersInSet,
                                 CurrentPlayer, AuctionStatus)
    /\ pc' = IF decision' \in DOMAIN RoutingTable
             THEN RoutingTable[decision'] ELSE "KeyError"
    /\ UNCHANGED <<catalogVars, AuctionStatus, CurrentPlayer, CurrentBid,
                   OtherTeamBidding, Round, Holdings, Budget, UnsoldPlayers, player,
                   Messages>>

(***************************************************************************)
(* host_assistant.host_assistant: the lot dispenser.                       *)
(***************************************************************************)
Falsy(inset) == inset.none \/ inset.items = <<>>

\* Mutant: the lot is put up without marking the auction active.
SelectPlayer_keeps_status(inset) ==
    IF ~Falsy(inset)
    THEN \E p \in Range(inset.items) :
            LET rest == Remove(inset.items, p)
            IN  /\ CurrentPlayer' = p
                /\ UNCHANGED AuctionStatus
                /\ RemainingPlayersInSet' =
                       IF rest = <<>> THEN NoneList
                       ELSE [none |-> FALSE, items |-> rest]
    ELSE /\ RemainingPlayersInSet' = inset
         /\ UNCHANGED <<CurrentPlayer, AuctionStatus>>

\* The second half of host_assistant: pick a lot of the current set at random.
SelectPlayer(inset) ==
    IF ~Falsy(inset)
    THEN \E p \in Range(inset.items) :
            LET rest == Remove(inset.items, p)
            IN  /\ CurrentPlayer' = p
                /\ AuctionStatus' = TRUE
                /\ RemainingPlayersInSet' =
                       IF rest = <<>> THEN NoneList
                       ELSE [none |-> FALSE, items |-> rest]
    ELSE /\ RemainingPlayersInSet' = inset
         /\ UNCHANGED <<CurrentPlayer, AuctionStatus>>

\* Mutant: the exhausted catalog is signalled with AuctionStatus left True.
NoMorePlayers_stays_active ==
    /\ RemainingSets' = <<>>
    /\ CurrentSet' = "None"
    /\ RemainingPlayersInSet' = NoneList
    /\ CurrentPlayer' = "None"
    /\ AuctionStatus' = TRUE
    /\ UNCHANGED RemainingPlayers

\* No set has lots left: the selection state is cleared.
NoMorePlayers ==
    /\ RemainingSets' = <<>>
    /\ CurrentSet' = "None"
    /\ RemainingPlayersInSet' = NoneList
    /\ CurrentPlayer' = "None"
    /\ AuctionStatus' = FALSE
    /\ UNCHANGED RemainingPlayers

\* Mutant: the chosen set stays in RemainingSets.
SelectSet_keeps_set(available_sets) ==
    \E s \in Range(available_sets) :
        /\ CurrentSet' = s
        /\ RemainingSets' = available_sets
        /\ RemainingPlayers' = [RemainingPlayers EXCEPT ![s] = <<>>]
        /\ SelectPlayer([none |-> FALSE, items |-> RemainingPlayers[s]])

\* A set with lots is chosen at random, taken out of RemainingSets, and its
\* lots become RemainingPlayersInSet.
SelectSet(available_sets) ==
    \E s \in Range(available_sets) :
        /\ CurrentSet' = s
        /\ RemainingSets' = Remove(available_sets, s)
        /\ RemainingPlayers' = [RemainingPlayers EXCEPT ![s] = <<>>]
        /\ SelectPlayer([none |-> FALSE, items |-> RemainingPlayers[s]])

\* Mutant: a new set is selected for every lot, whatever is left of the
\* current one.
host_assistant_always_new_set ==
    /\ pc = "host_assistant"
    /\ pc' = "host"
    /\ LET available_sets ==
               FilterSeq(RemainingSets,
                         {s \in DOMAIN RemainingPlayers : RemainingPlayers[s] # <<>>})
       IN  IF available_sets = <<>> THEN NoMorePlayers
           ELSE SelectSet(available_sets)
    /\ Messages' = Message("HOST ASSISTANT", CurrentPlayer', Round, "", FALSE)
    /\ UNCHANGED <<CurrentBid, OtherTeamBidding, Round, Holdings, Budget,
                   UnsoldPlayers, player, decision>>

host_assistant ==
    /\ pc = "host_assistant"
    /\ pc' = "host"
    /\ IF CurrentSet = "None" \/ Falsy(RemainingPlayersInSet)
       THEN LET available_sets ==
                    FilterSeq(RemainingSets,
                              {s \in DOMAIN RemainingPlayers : RemainingPlayers[s] # <<>>})
            IN  IF available_sets = <<>> THEN NoMorePlayers
                ELSE SelectSet(available_sets)
       ELSE /\ SelectPlayer(RemainingPlayersInSet)
            /\ UNCHANGED <<RemainingPlayers, RemainingSets, CurrentSet>>
    /\ Messages' = Message("HOST ASSISTANT", CurrentPlayer', Round, "", FALSE)
    /\ UNCHANGED <<CurrentBid, OtherTeamBidding, Round, Holdings, Budget,
                   UnsoldPlayers, player, decision>>

(***************************************************************************)
(* The bidder step: the graph node "bidder_pool" hands trademaster the     *)
(* round's proposed bids as a mapping team -> CompetitiveBidInfo, in       *)
(* insertion order.  Every team may be absent, pass, raise normally or     *)
(* raise by a custom amount.                                               *)
(***************************************************************************)
CompetitiveBidInfo ==
    {[is_raise |-> FALSE, is_normal |-> TRUE, raised_amount |-> 0],
     [is_raise |-> TRUE, is_normal |-> TRUE, raised_amount |-> 0]}
    \cup {[is_raise |-> TRUE, is_normal |-> FALSE, raised_amount |-> r] : r \in RaiseAmounts}

\* All ordered mappings over distinct teams.
BidMappings ==
    {<<>>}
    \cup {<<[team |-> t, bid |-> b]>> : t \in Teams, b \in CompetitiveBidInfo}
    \cup {<<[team |-> t1, bid |-> b1], [team |-> t2, bid |-> b2]>> :
            <<t1, t2, b1, b2>> \in
              {q \in Teams \X Teams \X CompetitiveBidInfo \X CompetitiveBidInfo : q[1] # q[2]}}

bidder_pool ==
    /\ pc = "bidder_pool"
    /\ pc' = "trademaster"
    /\ \E m \in BidMappings : OtherTeamBidding' = [kind |-> "dict", items |-> m]
    /\ Messages' = Message("AGENT POOL", CurrentPlayer, Round, "", FALSE)
    /\ UNCHANGED <<catalogVars, AuctionStatus, CurrentPlayer, CurrentBid, Round,
                   Holdings, Budget, UnsoldPlayers, player, decision>>

\* OtherTeamBidding set to None, which is not a mapping.
NoneBids == [kind |-> "None", items |-> <<>>]

(***************************************************************************)
(* agentpool.agent_pool as written: the eligible teams are consulted one   *)
(* after the other in a shuffled order, and the first raise is stored in   *)
(* OtherTeamBidding as a single CompetitiveBidInfo, not as a mapping.      *)
(***************************************************************************)
\* What one team's decision call gives: a decision, or an error when the call
\* fails (no API key, an exception of the model client); the decision of a
\* failed call is never read.
PoolOutcomes == [error : BOOLEAN, decision : CompetitiveBidInfo]

\* min_bid_raise: the raise agent_pool requires, zero for a first bid.
min_bid_raise == IF CurrentBid # NoneBid
                 THEN get_raise_amount(CurrentBid.current_bid_amount)
                 ELSE 0

next_bid_price == IF CurrentBid # NoneBid
                  THEN CurrentBid.current_bid_amount + min_bid_raise
                  ELSE base_price[CurrentPlayer]

\* Mutant: the budget of a team is not compared with the next price.
eligible_teams_ignores_budget ==
    {t \in Teams : ~(CurrentBid # NoneBid /\ CurrentBid.team = t)}

\* Mutant: the holder of the CurrentBid is consulted as well.
eligible_teams_with_holder == {t \in Teams : Budget[t] >= next_bid_price}

\* The teams consulted: not the holder, and able to pay the next price.
eligible_teams ==
    {t \in Teams : (CurrentBid = NoneBid \/ CurrentBid.team # t)
                      /\ Budget[t] >= next_bid_price}

\* random.shuffle: every order of the eligible teams.
Shuffles(S) ==
    {o \in [1..Cardinality(S) -> S] : \A i, j \in 1..Cardinality(S) : o[i] = o[j] => i = j}

\* The custom-raise test of agent_pool: a custom raise below min_bid_raise is
\* turned into a pass, unless min_bid_raise is zero.
pool_lets_through(bid, min_raise) ==
    ~(bid.is_raise /\ ~bid.is_normal /\ min_raise > 0 /\ bid.raised_amount < min_raise)

\* What the loop has done so far: the bid found (team "None" for none), the
\* lot's team_bid_history, the teams checked and those whose call failed.
PoolStart(history) ==
    [found |-> [team |-> "None", bid |-> [is_raise |-> FALSE, is_normal |-> TRUE,
                                          raised_amount |-> 0]],
     history |-> history, checked |-> <<>>, errors |-> {}]

\* Mutant: a failing decision call ends the round.
RECURSIVE pool_scan_stops_at_error(_, _, _, _)
pool_scan_stops_at_error(order, outcome, min_raise, acc) ==
    IF order = <<>> THEN acc
    ELSE LET t == Head(order)
             o == outcome[t].decision
             seen == [acc EXCEPT !.checked = Append(@, t)]
         IN  IF outcome[t].error
             THEN [seen EXCEPT !.errors = @ \cup {t}]
             ELSE IF ~pool_lets_through(o, min_raise)
             THEN pool_scan_stops_at_error(Tail(order), outcome, min_raise,
                            [seen EXCEPT !.history[t] = Append(@, "pass")])
             ELSE IF o.is_raise
             THEN [seen EXCEPT !.history[t] = Append(@, "raise"),
                               !.found = [team |-> t, bid |-> o]]
             ELSE pool_scan_stops_at_error(Tail(order), outcome, min_raise,
                            [seen EXCEPT !.history[t] = Append(@, "pass")])

\* The loop over the shuffled eligible teams: a failing call is skipped, a
\* pass and a custom raise below the minimum are recorded in the lot's
\* history, and the first raise is recorded and ends the loop.
RECURSIVE pool_scan(_, _, _, _)
pool_scan(order, outcome, min_raise, acc) ==
    IF order = <<>> THEN acc
    ELSE LET t == Head(order)
             o == outcome[t].decision
             seen == [acc EXCEPT !.checked = Append(@, t)]
         IN  IF outcome[t].error
             THEN pool_scan(Tail(order), outcome, min_raise,
                            [seen EXCEPT !.errors = @ \cup {t}])
             ELSE IF ~pool_lets_through(o, min_raise)
             THEN pool_scan(Tail(order), outcome, min_raise,
                            [seen EXCEPT !.history[t] = Append(@, "pass")])
             ELSE IF o.is_raise
             THEN [seen EXCEPT !.history[t] = Append(@, "raise"),
                               !.found = [team |-> t, bid |-> o]]
             ELSE pool_scan(Tail(order), outcome, min_raise,
                            [seen EXCEPT !.history[t] = Append(@, "pass")])

agent_pool ==
    /\ pc = "bidder_pool"
    /\ pc' = "trademaster"
    /\ IF CurrentPlayer = "None"
       THEN /\ Messages' = Message("AGENT POOL", CurrentPlayer, Round,
                                   "No current player", FALSE)
            /\ UNCHANGED <<OtherTeamBidding, player>>
       ELSE \E order \in Shuffles(eligible_teams) :
            \E outcome \in [eligible_teams -> PoolOutcomes] :
               LET r == pool_scan(order, outcome, min_bid_raise,
                                  PoolStart(player[CurrentPlayer].team_bid_history))
               IN  /\ OtherTeamBidding' =
                          IF r.found.team = "None" THEN NoneBids
                          ELSE [kind |-> "CompetitiveBidInfo", items |-> <<r.found>>]
                   /\ player' = [player EXCEPT
                                    ![CurrentPlayer].team_bid_history = r.history]
                   /\ Messages' =
                          [Message("AGENT POOL", CurrentPlayer, Round,
                                   IF r.found.team = "None" THEN "All eligible teams passed"
                                   ELSE "FIRST BID FOUND", FALSE)
                             EXCEPT !.checked = r.checked, !.errors = r.errors]
    /\ UNCHANGED <<catalogVars, AuctionStatus, CurrentPlayer, CurrentBid, Round,
                   Holdings, Budget, UnsoldPlayers, decision>>

(***************************************************************************)
(* trade_master.trademaster: the adjudicator.                              *)
(***************************************************************************)
\* The round limit: a lot is finalized once Round exceeds it.
RoundLimit == 2

\* Mutant: a custom raise must be strictly above the minimum raise.
bid_amount_strict(bid, floor, first) ==
    IF bid.is_raise
    THEN IF bid.is_normal
         THEN (IF first THEN floor ELSE floor + get_raise_amount(floor))
         ELSE (IF bid.raised_amount # 0 /\ bid.raised_amount > get_raise_amount(floor)
               THEN floor + bid.raised_amount
               ELSE -1)
    ELSE -1

\* Mutant: a first normal raise is priced like a counter-bid, one minimum
\* raise above the floor.
bid_amount_first_raised(bid, floor, first) ==
    IF bid.is_raise
    THEN IF bid.is_normal
         THEN floor + get_raise_amount(floor)
         ELSE (IF bid.raised_amount # 0 /\ bid.raised_amount >= get_raise_amount(floor)
               THEN floor + bid.raised_amount
               ELSE -1)
    ELSE -1

\* Mutant: a custom raise is not compared with the minimum raise.
bid_amount_custom_unchecked(bid, floor, first) ==
    IF bid.is_raise
    THEN IF bid.is_normal
         THEN (IF first THEN floor ELSE floor + get_raise_amount(floor))
         ELSE (IF bid.raised_amount # 0 THEN floor + bid.raised_amount ELSE -1)
    ELSE -1

\* The amount a proposed bid stands for, or -1 when the bid is skipped
\* (not a raise, or a custom raise that is missing or below the minimum).
\* first: there is no CurrentBid and floor is the base price.
bid_amount(bid, floor, first) ==
    IF bid.is_raise
    THEN IF bid.is_normal
         THEN (IF first THEN floor ELSE floor + get_raise_amount(floor))
         ELSE (IF bid.raised_amount # 0 /\ bid.raised_amount >= get_raise_amount(floor)
               THEN floor + bid.raised_amount
               ELSE -1)
    ELSE -1

\* Mutant: the budget is not checked.
bid_valid_ignores_budget(amount, floor, first, team_budget) ==
    /\ amount # -1
    /\ (IF first THEN amount >= floor ELSE amount > floor)

\* The validation of a computed amount against the floor and the team's budget.
bid_valid(amount, floor, first, team_budget) ==
    /\ amount # -1
    /\ (IF first THEN amount >= floor ELSE amount > floor)
    /\ amount <= team_budget

\* Mutant: the scan stops at the first bid that is skipped.
RECURSIVE valid_bids_stops_at_skipped(_, _, _, _)
valid_bids_stops_at_skipped(other_bids, floor, first, budgets) ==
    IF other_bids = <<>> THEN <<>>
    ELSE LET e == Head(other_bids)
             amt == bid_amount(e.bid, floor, first)
         IN  IF amt = -1 THEN <<>>
             ELSE (IF bid_valid(amt, floor, first, budgets[e.team])
                   THEN <<[team |-> e.team, bid |-> e.bid, bid_amount |-> amt]>>
                   ELSE <<>>)
                  \o valid_bids_stops_at_skipped(Tail(other_bids), floor, first, budgets)

\* valid_bids: the entries of other_bids that survive, in iteration order.
RECURSIVE valid_bids(_, _, _, _)
valid_bids(other_bids, floor, first, budgets) ==
    IF other_bids = <<>> THEN <<>>
    ELSE LET e == Head(other_bids)
             amt == bid_amount(e.bid, floor, first)
         IN  (IF bid_valid(amt, floor, first, budgets[e.team])
              THEN <<[team |-> e.team, bid |-> e.bid, bid_amount |-> amt]>>
              ELSE <<>>)
             \o valid_bids(Tail(other_bids), floor, first, budgets)

\* Mutant: a later entry of equal amount replaces the best so far.
RECURSIVE scan_best_last_wins(_, _, _, _)
scan_best_last_wins(valid, k, best, custom_only) ==
    IF k > Len(valid) THEN best
    ELSE IF (custom_only /\ valid[k].bid.is_normal)
         THEN scan_best_last_wins(valid, k+1, best, custom_only)
    ELSE IF best = 0 \/ valid[k].bid_amount >= valid[best].bid_amount
         THEN scan_best_last_wins(valid, k+1, k, custom_only)
         ELSE scan_best_last_wins(valid, k+1, best, custom_only)

\* One pass of the selection loop over valid_bids from position k on: best is
\* the index of the best entry so far (0 for none); a later entry replaces it
\* only when its amount is strictly greater.
RECURSIVE scan_best(_, _, _, _)
scan_best(valid, k, best, custom_only) ==
    IF k > Len(valid) THEN best
    ELSE IF (custom_only /\ valid[k].bid.is_normal) THEN scan_best(valid, k+1, best, custom_only)
    ELSE IF best = 0 \/ valid[k].bid_amount > valid[best].bid_amount
         THEN scan_best(valid, k+1, k, custom_only)
         ELSE scan_best(valid, k+1, best, custom_only)

\* Mutant: no priority for custom raises, the first highest valid bid wins.
best_bid_by_amount(valid) == scan_best(valid, 1, 0, FALSE)

\* The index in valid of the winning bid, 0 when there is none: custom raises
\* first, any valid bid otherwise.
best_bid(valid) ==
    LET custom == scan_best(valid, 1, 0, TRUE)
    IN  IF custom # 0 THEN custom ELSE scan_best(valid, 1, 0, FALSE)

\* Mutant: the round counter survives the end of a lot.
ResetRound_keeps_round ==
    /\ CurrentPlayer' = "None"
    /\ CurrentBid' = NoneBid
    /\ OtherTeamBidding' = EmptyDict
    /\ AuctionStatus' = FALSE
    /\ UNCHANGED Round

\* Mutant: the lot is closed but the auction stays marked active.
ResetRound_keeps_status ==
    /\ CurrentPlayer' = "None"
    /\ CurrentBid' = NoneBid
    /\ Round' = 0
    /\ OtherTeamBidding' = EmptyDict
    /\ UNCHANGED AuctionStatus

\* The reset at the end of a lot.
ResetRound ==
    /\ CurrentPlayer' = "None"
    /\ CurrentBid' = NoneBid
    /\ Round' = 0
    /\ OtherTeamBidding' = EmptyDict
    /\ AuctionStatus' = FALSE

\* Mutant: the lot is marked sold but not appended to the winner's holdings.
FinalizeSale_no_append(reason) ==
    /\ player' = [player EXCEPT ![CurrentPlayer] =
                    [status |-> TRUE, sold_price |-> CurrentBid.current_bid_amount,
                     sold_team |-> CurrentBid.team, reason_for_purchase |-> reason,
                     team_bid_history |-> @.team_bid_history]]
    /\ Budget' = [Budget EXCEPT ![CurrentBid.team] = @ - CurrentBid.current_bid_amount]
    /\ ResetRound
    /\ UNCHANGED <<Holdings, UnsoldPlayers>>

\* Mutant: the lot is transferred but the winner's budget is not debited.
FinalizeSale_no_debit(reason) ==
    /\ player' = [player EXCEPT ![CurrentPlayer] =
                    [status |-> TRUE, sold_price |-> CurrentBid.current_bid_amount,
                     sold_team |-> CurrentBid.team, reason_for_purchase |-> reason,
                     team_bid_history |-> @.team_bid_history]]
    /\ Holdings' = [Holdings EXCEPT ![CurrentBid.team] = Append(@, CurrentPlayer)]
    /\ ResetRound
    /\ UNCHANGED <<Budget, UnsoldPlayers>>

\* Mutant: a failing generate_purchase_reason leaves the sale half done, the
\* lot marked sold but neither appended nor paid for.
FinalizeSale_stops_on_failure(reason) ==
    LET winning_team == CurrentBid.team
        final_price == CurrentBid.current_bid_amount
    IN  /\ player' = [player EXCEPT ![CurrentPlayer] =
                        [status |-> TRUE, sold_price |-> final_price,
                         sold_team |-> winning_team,
                         reason_for_purchase |->
                            IF reason = "None" THEN @.reason_for_purchase ELSE reason,
                         team_bid_history |-> @.team_bid_history]]
        /\ Holdings' = IF winning_team \in DOMAIN Holdings /\ reason # "None"
                       THEN [Holdings EXCEPT ![winning_team] = Append(@, CurrentPlayer)]
                       ELSE Holdings
        /\ Budget' = IF winning_team \in DOMAIN Budget /\ reason # "None"
                     THEN [Budget EXCEPT ![winning_team] = @ - final_price]
                     ELSE Budget
        /\ ResetRound
        /\ UNCHANGED UnsoldPlayers

\* The sale of the current lot to the CurrentBid holder.  reason is the text
\* generate_purchase_reason returned, or "None" when it is not called or fails.
FinalizeSale(reason) ==
    LET winning_team == CurrentBid.team
        final_price == CurrentBid.current_bid_amount
    IN  /\ player' = [player EXCEPT ![CurrentPlayer] =
                        [status |-> TRUE, sold_price |-> final_price,
                         sold_team |-> winning_team,
                         reason_for_purchase |->
                            IF reason = "None" THEN @.reason_for_purchase ELSE reason,
                         team_bid_history |-> @.team_bid_history]]
        /\ Holdings' = IF winning_team \in DOMAIN Holdings
                       THEN [Holdings EXCEPT ![winning_team] = Append(@, CurrentPlayer)]
                       ELSE Holdings
        /\ Budget' = IF winning_team \in DOMAIN Budget
                     THEN [Budget EXCEPT ![winning_team] = @ - final_price]
                     ELSE Budget
        /\ ResetRound
        /\ UNCHANGED UnsoldPlayers

\* Mutant: the lot is dropped instead of being appended to UnsoldPlayers.
MarkUnsold_lost ==
    /\ ResetRound
    /\ UNCHANGED <<Holdings, Budget, player, UnsoldPlayers>>

\* Mutant: the lot is appended to UnsoldPlayers twice.
MarkUnsold_twice ==
    /\ UnsoldPlayers' = Append(Append(UnsoldPlayers, CurrentPlayer), CurrentPlayer)
    /\ ResetRound
    /\ UNCHANGED <<Holdings, Budget, player>>

\* The current lot goes to UnsoldPlayers.
MarkUnsold ==
    /\ UnsoldPlayers' = Append(UnsoldPlayers, CurrentPlayer)
    /\ ResetRound
    /\ UNCHANGED <<Holdings, Budget, player>>

\* Mutant: at the round limit the lot is voided although it has a CurrentBid.
RoundLimitCheck_voids(new_round, with_reasoner, case) ==
    LET Says == Message("TRADEMASTER", CurrentPlayer, Round, case, new_round > RoundLimit)
    IN  IF new_round > RoundLimit
        THEN /\ Messages' = Says
             /\ MarkUnsold
        ELSE /\ Messages' = Says
             /\ Round' = new_round
             /\ OtherTeamBidding' = EmptyDict
             /\ UNCHANGED <<CurrentPlayer, CurrentBid, AuctionStatus,
                            Holdings, Budget, UnsoldPlayers, player>>

\* Mutant: the lot is finalized as soon as Round reaches the limit.
RoundLimitCheck_at_limit(new_round, with_reasoner, case) ==
    /\ IF new_round >= RoundLimit
       THEN IF with_reasoner
            THEN \E reason \in {"text", "None"} :
                    /\ FinalizeSale(reason)
                    /\ Messages' = [Message("TRADEMASTER", CurrentPlayer, Round, case, TRUE)
                                        EXCEPT !.reasoner = IF reason = "None" THEN "error"
                                                            ELSE "reason"]
            ELSE /\ FinalizeSale("None")
                 /\ Messages' = Message("TRADEMASTER", CurrentPlayer, Round, case, TRUE)
       ELSE /\ Messages' = Message("TRADEMASTER", CurrentPlayer, Round, case, FALSE)
            /\ Round' = new_round
            /\ OtherTeamBidding' = EmptyDict
            /\ UNCHANGED <<CurrentPlayer, CurrentBid, AuctionStatus,
                           Holdings, Budget, UnsoldPlayers, player>>

\* The check that follows every increment of Round.  with_reasoner: the
\* branch calls generate_purchase_reason, which returns a text or fails.
\* case: the case the message names.
RoundLimitCheck(new_round, with_reasoner, case) ==
    LET Says == Message("TRADEMASTER", CurrentPlayer, Round, case, new_round > RoundLimit)
    IN
    /\ IF new_round > RoundLimit
       THEN IF CurrentPlayer # "None" /\ CurrentBid # NoneBid /\ CurrentBid.team # "None"
            THEN IF with_reasoner
                 THEN \E reason \in {"text", "None"} :
                         /\ FinalizeSale(reason)
                         /\ Messages' = [Says EXCEPT !.reasoner =
                                             IF reason = "None" THEN "error" ELSE "reason"]
                 ELSE /\ FinalizeSale("None")
                      /\ Messages' = Says
            ELSE /\ MarkUnsold
                 /\ Messages' = Says
       ELSE /\ Messages' = Says
            /\ Round' = new_round
            /\ OtherTeamBidding' = EmptyDict
            /\ UNCHANGED <<CurrentPlayer, CurrentBid, AuctionStatus,
                           Holdings, Budget, UnsoldPlayers, player>>

\* Mutant: the bidder is debited when the bid is accepted, not at the sale.
AcceptBid_debits(w) ==
    /\ CurrentBid' = [player |-> CurrentPlayer, team |-> w.team,
                      current_bid_amount |-> w.bid_amount,
                      current_raise_amount |-> get_raise_amount(w.bid_amount)]
    /\ Round' = 0
    /\ OtherTeamBidding' = EmptyDict
    /\ Budget' = [Budget EXCEPT ![w.team] = @ - w.bid_amount]
    /\ UNCHANGED <<CurrentPlayer, AuctionStatus, Holdings, UnsoldPlayers, player>>

\* Mutant: a counter-bid takes the lead at the amount of the bid it replaces.
AcceptBid_at_old_price(w) ==
    /\ CurrentBid' = [player |-> CurrentPlayer, team |-> w.team,
                      current_bid_amount |->
                          IF CurrentBid = NoneBid THEN w.bid_amount
                          ELSE CurrentBid.current_bid_amount,
                      current_raise_amount |-> get_raise_amount(w.bid_amount)]
    /\ Round' = 0
    /\ OtherTeamBidding' = EmptyDict
    /\ UNCHANGED <<CurrentPlayer, AuctionStatus, Holdings, Budget, UnsoldPlayers, player>>

\* Mutant: accepting a bid leaves the round counter as it is.
AcceptBid_keeps_round(w) ==
    /\ CurrentBid' = [player |-> CurrentPlayer, team |-> w.team,
                      current_bid_amount |-> w.bid_amount,
                      current_raise_amount |-> get_raise_amount(w.bid_amount)]
    /\ OtherTeamBidding' = EmptyDict
    /\ UNCHANGED <<CurrentPlayer, AuctionStatus, Holdings, Budget, UnsoldPlayers, player, Round>>

\* A new leading bid replaces CurrentBid.
AcceptBid(w) ==
    /\ CurrentBid' = [player |-> CurrentPlayer, team |-> w.team,
                      current_bid_amount |-> w.bid_amount,
                      current_raise_amount |-> get_raise_amount(w.bid_amount)]
    /\ Round' = 0
    /\ OtherTeamBidding' = EmptyDict
    /\ UNCHANGED <<CurrentPlayer, AuctionStatus, Holdings, Budget, UnsoldPlayers, player>>

\* The early return taken when there is no current lot: a message is added
\* and the state is handed back as it is.
NoCurrentPlayer ==
    /\ pc' = "host"
    /\ Messages' = Message("TRADEMASTER", CurrentPlayer, Round, "No current player", FALSE)
    /\ UNCHANGED <<AuctionStatus, CurrentPlayer, CurrentBid, OtherTeamBidding,
                   Round, Holdings, Budget, UnsoldPlayers, player>>

trademaster ==
    /\ pc = "trademaster"
    /\ UNCHANGED <<catalogVars, decision>>
    /\ IF OtherTeamBidding.kind # "dict"
       THEN \* len(other_bids) raises TypeError before anything is written
            /\ pc' = "TypeError"
            /\ UNCHANGED <<AuctionStatus, CurrentPlayer, CurrentBid, OtherTeamBidding,
                           Round, Holdings, Budget, UnsoldPlayers, player, Messages>>
       ELSE
       LET other_bids == OtherTeamBidding.items
           Says(case) == Message("TRADEMASTER", CurrentPlayer, Round, case, FALSE)
       IN  IF CurrentPlayer = "None" THEN NoCurrentPlayer
           ELSE
           /\ pc' = "host"
           /\ IF CurrentBid = NoneBid /\ other_bids = <<>>
              THEN \* Case 1: no bids at all
                   /\ Messages' = Says("CASE 1")
                   /\ MarkUnsold
              ELSE IF other_bids = <<>>
              THEN \* Case 2: no new bids this round
                   RoundLimitCheck(Round + 1, TRUE, "CASE 2")
              ELSE IF CurrentBid = NoneBid
              THEN \* Case 3, first bid: the floor is the base price
                   LET valid == valid_bids(other_bids, base_price[CurrentPlayer], TRUE, Budget)
                       best == best_bid(valid)
                   IN  IF best # 0
                       THEN /\ Messages' = Says("First bid accepted")
                            /\ AcceptBid(valid[best])
                       ELSE /\ Messages' = Says("No valid bids found")
                            /\ OtherTeamBidding' = EmptyDict
                            /\ UNCHANGED <<AuctionStatus, CurrentPlayer, CurrentBid, Round,
                                           Holdings, Budget, UnsoldPlayers, player>>
              ELSE \* Case 3, counter-bid: the floor is the current bid
                   LET valid == valid_bids(other_bids, CurrentBid.current_bid_amount,
                                           FALSE, Budget)
                       best == best_bid(valid)
                   IN  IF best # 0
                       THEN /\ Messages' = Says("Bid updated")
                            /\ AcceptBid(valid[best])
                       ELSE RoundLimitCheck(Round + 1, FALSE, "No valid counter-bids")

Next == host \/ host_assistant \/ bidder_pool \/ trademaster

Spec == Init /\ [][Next]_vars

(***************************************************************************)
(* The router called directly: host.host applied, and applied again, to    *)
(* every combination of the four fields it reads.                          *)
(***************************************************************************)
\* The values of RemainingSets and RemainingPlayersInSet the router is given.
HostRemainingSets == {<<>>, <<"M2">>, <<"M1", "AL1">>}

HostRemainingPlayersInSet ==
    {NoneList, [none |-> FALSE, items |-> <<>>], [none |-> FALSE, items |-> <<"p2">>]}

InitHost ==
    /\ RemainingPlayers = Catalog
    /\ RemainingSets \in HostRemainingSets
    /\ CurrentSet = "None"
    /\ RemainingPlayersInSet \in HostRemainingPlayersInSet
    /\ AuctionStatus \in BOOLEAN
    /\ CurrentPlayer \in Lots \cup {"None"}
    /\ CurrentBid = NoneBid
    /\ OtherTeamBidding = EmptyDict
    /\ Round = 0
    /\ Holdings = [t \in Teams |-> <<>>]
    /\ Budget = [t \in Teams |-> InitBudget]
    /\ UnsoldPlayers = <<>>
    /\ player = [l \in Lots |-> NewPlayer]
    /\ Messages = NoMessage
    /\ pc = "host"
    /\ decision = "None"

\* The caller hands the state the router was given to the router once more.
host_again ==
    /\ pc # "host"
    /\ decision # "None"
    /\ pc' = "host"
    /\ UNCHANGED <<catalogVars, AuctionStatus, CurrentPlayer, CurrentBid,
                   OtherTeamBidding, Round, Holdings, Budget, UnsoldPlayers, player,
                   Messages, decision>>

NextHost == host \/ host_again

SpecHost == InitHost /\ [][NextHost]_vars

(***************************************************************************)
(* trademaster called directly on a state at the start of a lot: no        *)
(* CurrentBid, Round 0, with or without a current lot, and any value of    *)
(* OtherTeamBidding a caller leaves there.                                 *)
(***************************************************************************)
InitCall ==
    /\ RemainingPlayers = Catalog
    /\ RemainingSets = Sets
    /\ CurrentSet = "None"
    /\ RemainingPlayersInSet = NoneList
    /\ CurrentPlayer \in Lots \cup {"None"}
    /\ AuctionStatus = (CurrentPlayer # "None")
    /\ CurrentBid = NoneBid
    /\ OtherTeamBidding \in {NoneBids} \cup {[kind |-> "dict", items |-> m] : m \in BidMappings}
    /\ Round = 0
    /\ Holdings = [t \in Teams |-> <<>>]
    /\ Budget = [t \in Teams |-> InitBudget]
    /\ UnsoldPlayers = <<>>
    /\ player = [l \in Lots |-> NewPlayer]
    /\ Messages = NoMessage
    /\ pc = "trademaster"
    /\ decision = "None"

NextCall == trademaster

SpecCall == InitCall /\ [][NextCall]_vars

(***************************************************************************)
(* host_assistant called directly, followed by the router, on the states   *)
(* the dispenser can be given between two lots: any part of the catalog    *)
(* left, with or without a current set.                                    *)
(***************************************************************************)
\* What is left of each set: all of it, a part, or nothing.
DispenseCatalogs ==
    {[s \in DOMAIN Catalog |-> IF s = "M1" THEN m1 ELSE IF s = "M2" THEN m2 ELSE <<>>] :
        m1 \in {<<>>, <<"p1">>, <<"p1", "p2">>}, m2 \in {<<>>, <<"p3">>}}

DispenseRemainingSets == {<<>>, <<"AL1">>, <<"M2", "AL1">>, Sets}

InitDispense ==
    /\ RemainingPlayers \in DispenseCatalogs
    /\ RemainingSets \in DispenseRemainingSets
    /\ CurrentSet \in {"None", "M1"}
    /\ RemainingPlayersInSet \in HostRemainingPlayersInSet
    /\ AuctionStatus = FALSE
    /\ CurrentPlayer = "None"
    /\ CurrentBid = NoneBid
    /\ OtherTeamBidding = EmptyDict
    /\ Round = 0
    /\ Holdings = [t \in Teams |-> <<>>]
    /\ Budget = [t \in Teams |-> InitBudget]
    /\ UnsoldPlayers = <<>>
    /\ player = [l \in Lots |-> NewPlayer]
    /\ Messages = NoMessage
    /\ pc = "host_assistant"
    /\ decision = "None"

NextDispense == host_assistant \/ host

SpecDispense == InitDispense /\ [][NextDispense]_vars

(***************************************************************************)
(* agent_pool called directly, followed by trademaster, on the states a    *)
(* bidding round can start in: a lot up or none, no CurrentBid or one the  *)
(* holder can pay, any Round up to the limit.                              *)
(***************************************************************************)
\* The budgets a team has at the start of the round.
PoolBudgets == {30, InitBudget}

\* The amounts above the lot's base price a CurrentBid stands at.
PoolRaised == {0, 15}

InitPool ==
    /\ RemainingPlayers = Catalog
    /\ RemainingSets = Sets
    /\ CurrentSet = "None"
    /\ RemainingPlayersInSet = NoneList
    /\ CurrentPlayer \in Lots \cup {"None"}
    /\ AuctionStatus = (CurrentPlayer # "None")
    /\ Budget \in [Teams -> PoolBudgets]
    /\ CurrentBid \in {NoneBid} \cup
          {[player |-> CurrentPlayer, team |-> t,
            current_bid_amount |-> base_price[l] + a,
            current_raise_amount |-> get_raise_amount(base_price[l] + a)] :
             l \in Lots \cap {CurrentPlayer}, t \in Teams, a \in PoolRaised}
    /\ CurrentBid # NoneBid => CurrentBid.current_bid_amount <= Budget[CurrentBid.team]
    /\ OtherTeamBidding = EmptyDict
    /\ Round \in IF CurrentBid = NoneBid THEN {0} ELSE 0..RoundLimit
    /\ Holdings = [t \in Teams |-> <<>>]
    /\ UnsoldPlayers = <<>>
    /\ player = [l \in Lots |-> NewPlayer]
    /\ Messages = NoMessage
    /\ pc = "bidder_pool"
    /\ decision = "None"

NextPool == agent_pool \/ trademaster

SpecPool == InitPool /\ [][NextPool]_vars

(***************************************************************************)
(* bidder_tool, the check of a proposed-bid shape, called directly on      *)
(* every combination of its three arguments.  An Optional argument is a    *)
(* record [none, value]; amounts are in units of 0.05 Cr.  The arguments   *)
(* are kept in OtherTeamBidding, the dict returned in Messages, and pc     *)
(* tells whether the call returned or raised ValueError.                   *)
(***************************************************************************)
\* The largest custom amount tried, in units of 0.05 Cr.
MaxToolAmount == 14

ToolAmounts == -3..MaxToolAmount

OptionalBool == {[none |-> TRUE, value |-> FALSE]} \cup
                {[none |-> FALSE, value |-> b] : b \in BOOLEAN}

OptionalFloat == {[none |-> TRUE, value |-> 0]} \cup
                 {[none |-> FALSE, value |-> a] : a \in ToolAmounts}

BidderInput == [is_raise : BOOLEAN, is_normal : OptionalBool,
                raised_amount : OptionalFloat]

ToolSuccess(is_raise, is_normal, raised_amount) ==
    [status |-> "success",
     bid_decision |-> [is_raise |-> is_raise, is_normal |-> is_normal,
                       raised_amount |-> raised_amount]]

ToolValueError == [status |-> "ValueError"]

\* Mutant: a custom raise of zero passes the check.
bidder_tool_accepts_zero(is_raise, is_normal, raised_amount) ==
    IF ~is_raise
    THEN IF ~raised_amount.none THEN ToolValueError
         ELSE ToolSuccess(is_raise, is_normal, raised_amount)
    ELSE IF is_normal.none THEN ToolValueError
    ELSE IF is_normal.value
    THEN IF ~raised_amount.none THEN ToolValueError
         ELSE ToolSuccess(is_raise, is_normal, raised_amount)
    ELSE IF raised_amount.none THEN ToolValueError
    ELSE IF raised_amount.value < 0 THEN ToolValueError
    ELSE ToolSuccess(is_raise, is_normal, raised_amount)

bidder_tool(is_raise, is_normal, raised_amount) ==
    IF ~is_raise
    THEN IF ~raised_amount.none THEN ToolValueError
         ELSE ToolSuccess(is_raise, is_normal, raised_amount)
    ELSE IF is_normal.none THEN ToolValueError
    ELSE IF is_normal.value
    THEN IF ~raised_amount.none THEN ToolValueError
         ELSE ToolSuccess(is_raise, is_normal, raised_amount)
    ELSE IF raised_amount.none THEN ToolValueError
    ELSE IF raised_amount.value <= 0 THEN ToolValueError
    ELSE ToolSuccess(is_raise, is_normal, raised_amount)

InitTool ==
    /\ RemainingPlayers = Catalog
    /\ RemainingSets = Sets
    /\ CurrentSet = "None"
    /\ RemainingPlayersInSet = NoneList
    /\ CurrentPlayer = "None"
    /\ AuctionStatus = FALSE
    /\ CurrentBid = NoneBid
    /\ OtherTeamBidding \in {[kind |-> "BidderInput", items |-> <<args>>] :
                                args \in BidderInput}
    /\ Round = 0
    /\ Holdings = [t \in Teams |-> <<>>]
    /\ Budget = [t \in Teams |-> InitBudget]
    /\ UnsoldPlayers = <<>>
    /\ player = [l \in Lots |-> NewPlayer]
    /\ Messages = NoMessage
    /\ pc = "bidder_tool"
    /\ decision = "None"

call_bidder_tool ==
    /\ pc = "bidder_tool"
    /\ LET args == OtherTeamBidding.items[1]
           result == bidder_tool(args.is_raise, args.is_normal, args.raised_amount)
       IN  IF result.status = "ValueError"
           THEN pc' = "ValueError" /\ UNCHANGED Messages
           ELSE pc' = "returned" /\ Messages' = result
    /\ UNCHANGED <<catalogVars, AuctionStatus, CurrentPlayer, CurrentBid,
                   OtherTeamBidding, Round, Holdings, Budget, UnsoldPlayers,
                   player, decision>>

NextTool == call_bidder_tool

SpecTool == InitTool /\ [][NextTool]_vars

(***************************************************************************)
(* The bidding on one lot, from the moment host_assistant has put it up    *)
(* until trademaster closes it: the loop host -> bidder_pool ->            *)
(* trademaster, scheduled fairly, for every lot and every pair of team     *)
(* budgets of PoolBudgets.                                                 *)
(***************************************************************************)
InitLot ==
    /\ RemainingPlayers = Catalog
    /\ RemainingSets = Sets
    /\ CurrentSet = "None"
    /\ RemainingPlayersInSet = NoneList
    /\ CurrentPlayer \in Lots
    /\ AuctionStatus = TRUE
    /\ CurrentBid = NoneBid
    /\ OtherTeamBidding = EmptyDict
    /\ Round = 0
    /\ Holdings = [t \in Teams |-> <<>>]
    /\ Budget \in [Teams -> PoolBudgets]
    /\ UnsoldPlayers = <<>>
    /\ player = [l \in Lots |-> NewPlayer]
    /\ Messages = NoMessage
    /\ pc = "host"
    /\ decision = "None"

NextLot == host \/ bidder_pool \/ trademaster

SpecLot ==
    /\ InitLot /\ [][NextLot]_vars
    /\ WF_vars(host)
    /\ WF_vars(bidder_pool)
    /\ WF_vars(trademaster)

\* The driver runs the node the graph has scheduled: no node is postponed forever.
FairSpec ==
    /\ Spec
    /\ WF_vars(host)
    /\ WF_vars(host_assistant)
    /\ WF_vars(bidder_pool)
    /\ WF_vars(trademaster)

(***************************************************************************)
(* Properties.                                                             *)
(***************************************************************************)
RECURSIVE SoldPrices(_)
SoldPrices(lots) ==
    IF lots = <<>> THEN 0 ELSE player[Head(lots)].sold_price + SoldPrices(Tail(lots))

Holders(l) == {t \in Teams : l \in Range(Holdings[t])}

\* How many times lot l occurs in the places a lot can be.
Occurrences(l) ==
    LET RECURSIVE InSets(_)
        InSets(S) == IF S = {} THEN 0
                     ELSE LET s == CHOOSE x \in S : TRUE
                          IN  Count(RemainingPlayers[s], l) + InSets(S \ {s})
        RECURSIVE InTeams(_)
        InTeams(T) == IF T = {} THEN 0
                      ELSE LET t == CHOOSE x \in T : TRUE
                           IN  Count(Holdings[t], l) + InTeams(T \ {t})
    IN  InSets(DOMAIN RemainingPlayers)
        + Count(RemainingPlayersInSet.items, l)
        + (IF CurrentPlayer = l THEN 1 ELSE 0)
        + InTeams(Teams)
        + Count(UnsoldPlayers, l)

\* C1: every team's budget is >= 0 in every reachable state, so every
\* finalization leaves budget_before - final_price >= 0.
C1_BudgetNeverNegative == \A t \in Teams : Budget[t] >= 0

\* A team has spent its whole budget on the lots it holds.
C1_Witness == \E t \in Teams : Holdings[t] # <<>> /\ Budget[t] = 0

\* C2: a lot marked sold is held by exactly one team, once, that team is its
\* sold_team, and it is not in UnsoldPlayers; a lot in UnsoldPlayers is not
\* marked sold, has no sold_team and is held by no team.
C2_SoldXorUnsold ==
    \A l \in Lots :
        /\ player[l].status =>
              /\ Holders(l) = {player[l].sold_team}
              /\ Count(Holdings[player[l].sold_team], l) = 1
              /\ l \notin Range(UnsoldPlayers)
        /\ l \in Range(UnsoldPlayers) =>
              /\ ~player[l].status
              /\ player[l].sold_team = "None"
              /\ Holders(l) = {}

C2_Witness ==
    /\ \E l \in Lots : player[l].status
    /\ UnsoldPlayers # <<>>

\* C3: finalization is one step: in every state a lot is marked sold exactly
\* when it is in its sold_team's holdings, and what a team has been debited
\* is exactly the sold_price of the lots it holds.
C3_FinalizationAtomic ==
    /\ \A l \in Lots :
          /\ player[l].status <=> player[l].sold_team \in Teams
          /\ player[l].status <=> Holders(l) # {}
          /\ player[l].status => l \in Range(Holdings[player[l].sold_team])
    /\ \A t \in Teams :
          /\ \A l \in Range(Holdings[t]) : player[l].status /\ player[l].sold_team = t
          /\ InitBudget - Budget[t] = SoldPrices(Holdings[t])

\* One sale whose rationale was generated and one whose rationale is missing.
C3_Witness ==
    \E l1, l2 \in Lots :
        /\ player[l1].status /\ player[l1].reason_for_purchase = "None"
        /\ player[l2].status /\ player[l2].reason_for_purchase = "text"
        /\ Budget[player[l1].sold_team] < InitBudget

TrademasterReturns == pc = "trademaster" /\ pc' = "host"

\* The current lot was sold in this step to team t at price a.
SoldNow(t, a) ==
    /\ player'[CurrentPlayer].status
    /\ player'[CurrentPlayer].sold_team = t
    /\ player'[CurrentPlayer].sold_price = a
    /\ Holdings' = [Holdings EXCEPT ![t] = Append(@, CurrentPlayer)]
    /\ Budget' = [Budget EXCEPT ![t] = @ - a]

RoundStateReset ==
    /\ CurrentPlayer' = "None"
    /\ CurrentBid' = NoneBid
    /\ Round' = 0
    /\ AuctionStatus' = FALSE

Settled(l) == player[l].status \/ l \in Range(UnsoldPlayers)

\* C5: under fair scheduling every lot put up is eventually sold or moved to
\* UnsoldPlayers, and the router eventually decides End.
C5_AuctionTerminates ==
    /\ <>(decision = "__end__")
    /\ \A l \in Lots : (CurrentPlayer = l) ~> Settled(l)

\* C6: a trademaster call with a CurrentBid and no proposed bids adds exactly 1
\* to Round and keeps CurrentBid while the new Round is at most 2, and sells
\* the lot to the CurrentBid holder at the CurrentBid amount once it exceeds 2.
C6_NoBidRound ==
    [][(/\ TrademasterReturns
        /\ CurrentPlayer # "None"
        /\ CurrentBid # NoneBid
        /\ OtherTeamBidding = EmptyDict)
       => IF Round + 1 <= 2
          THEN /\ Round' = Round + 1
               /\ CurrentBid' = CurrentBid
               /\ CurrentPlayer' = CurrentPlayer
               /\ ~player'[CurrentPlayer].status
               /\ UNCHANGED <<Holdings, Budget, UnsoldPlayers>>
          ELSE SoldNow(CurrentBid.team, CurrentBid.current_bid_amount)]_vars

\* A round without bids has been counted and the lot is still up.
C6_Witness ==
    /\ Messages.node = "TRADEMASTER" /\ Messages.case = "CASE 2"
    /\ Round = 2 /\ CurrentBid # NoneBid /\ pc = "host"

\* C7 as claimed: with a CurrentBid, Round = 1 (the limit minus one) and no
\* proposed bids, one trademaster call finalizes the lot.
C7_FinalizeAtLimitMinusOne ==
    [][(/\ TrademasterReturns
        /\ CurrentPlayer # "None"
        /\ CurrentBid # NoneBid
        /\ Round = 1
        /\ OtherTeamBidding = EmptyDict)
       => (SoldNow(CurrentBid.team, CurrentBid.current_bid_amount) /\ RoundStateReset)]_vars

\* C7 amended: with a CurrentBid, Round = 2 (the limit) and no proposed bids,
\* one trademaster call finalizes the lot: it is appended to the holder's
\* holdings, the holder's budget is reduced by the bid amount, and
\* CurrentPlayer, CurrentBid, Round, AuctionStatus become None, None, 0, False.
C7_FinalizeAtLimit ==
    [][(/\ TrademasterReturns
        /\ CurrentPlayer # "None"
        /\ CurrentBid # NoneBid
        /\ Round = 2
        /\ OtherTeamBidding = EmptyDict)
       => (SoldNow(CurrentBid.team, CurrentBid.current_bid_amount) /\ RoundStateReset)]_vars

\* A lot was finalized by a round without bids that started at Round = 2.
C7_Witness ==
    /\ Messages.node = "TRADEMASTER" /\ Messages.case = "CASE 2"
    /\ Messages.round = 2 /\ Messages.limit_exceeded
    /\ player[Messages.player].status /\ pc = "host"

\* C8: a trademaster call with an active lot, no CurrentBid and no proposed
\* bids appends the lot to UnsoldPlayers once, resets CurrentPlayer, CurrentBid,
\* Round, OtherTeamBidding and AuctionStatus, and changes no budget or holdings.
C8_NoBidsAtAllUnsold ==
    [][(/\ TrademasterReturns
        /\ CurrentPlayer # "None"
        /\ CurrentBid = NoneBid
        /\ OtherTeamBidding = EmptyDict)
       => /\ UnsoldPlayers' = Append(UnsoldPlayers, CurrentPlayer)
          /\ Count(UnsoldPlayers', CurrentPlayer) = 1
          /\ RoundStateReset
          /\ OtherTeamBidding' = EmptyDict
          /\ UNCHANGED <<Holdings, Budget>>]_vars

C8_Witness ==
    /\ Messages.node = "TRADEMASTER" /\ Messages.case = "CASE 1"
    /\ Messages.player \in Range(UnsoldPlayers) /\ pc = "host"

\* The price a proposed bid is measured against.
CurrentPrice == IF CurrentBid = NoneBid THEN base_price[CurrentPlayer]
                ELSE CurrentBid.current_bid_amount

Accepted == CurrentBid' # NoneBid /\ CurrentBid' # CurrentBid

C10_RaiseAtTwoIsQuarter ==
    (CurrentBid # NoneBid /\ CurrentBid.current_bid_amount = 40)
        => CurrentBid.current_raise_amount = 5

\* C10 amended: at a current price of exactly 2.0 Cr the minimum raise is
\* 0.75 Cr; 0.25 Cr is the minimum raise of the prices below 2.0 Cr.
C10_RaiseAtTwoIsThreeQuarters ==
    CurrentBid # NoneBid =>
        /\ CurrentBid.current_bid_amount = 40 => CurrentBid.current_raise_amount = 15
        /\ CurrentBid.current_bid_amount < 40 => CurrentBid.current_raise_amount = 5

C10_Witness == CurrentBid # NoneBid /\ CurrentBid.current_bid_amount = 40


\* A proposed bid the adjudicator can take at the current price: a raise whose
\* amount is above the floor (at it, for a first bid) and within the team's budget.
Candidate(e) ==
    LET min_required == get_raise_amount(CurrentPrice)
        amount == IF e.bid.is_normal
                  THEN (IF CurrentBid = NoneBid THEN CurrentPrice
                        ELSE CurrentPrice + min_required)
                  ELSE CurrentPrice + e.bid.raised_amount
    IN  /\ e.bid.is_raise
        /\ e.bid.is_normal \/ e.bid.raised_amount >= min_required
        /\ amount <= Budget[e.team]

NoCandidate == \A i \in 1..Len(OtherTeamBidding.items) : ~Candidate(OtherTeamBidding.items[i])

\* C11: a trademaster call with a CurrentBid and proposed bids none of which is
\* valid (not a raise, custom raise below the minimum, above the team's budget)
\* keeps CurrentBid and adds exactly 1 to Round while the new Round is at most
\* 2, and sells the lot to the CurrentBid holder once it exceeds 2, as a round
\* without bids does.
C11_NoValidCounterBid ==
    [][(/\ TrademasterReturns
        /\ CurrentPlayer # "None"
        /\ CurrentBid # NoneBid
        /\ OtherTeamBidding.items # <<>>
        /\ NoCandidate)
       => IF Round + 1 <= 2
          THEN /\ Round' = Round + 1
               /\ CurrentBid' = CurrentBid
               /\ CurrentPlayer' = CurrentPlayer
               /\ ~player'[CurrentPlayer].status
               /\ UNCHANGED <<Holdings, Budget, UnsoldPlayers>>
          ELSE /\ SoldNow(CurrentBid.team, CurrentBid.current_bid_amount)
               /\ RoundStateReset]_vars

\* Rounds of invalid counter-bids were counted up to the limit, and one more
\* sold the lot to the holder.
C11_Witness ==
    /\ Messages.node = "TRADEMASTER" /\ Messages.case = "No valid counter-bids"
    /\ pc = "host"
    /\ \/ Round = 2 /\ CurrentBid # NoneBid
       \/ Messages.limit_exceeded /\ player[Messages.player].status

C13_CustomBeatsNormal ==
    [][(/\ TrademasterReturns
        /\ CurrentPlayer # "None"
        /\ Len(OtherTeamBidding.items) = 2)
       => \A i, j \in 1..2 :
            LET n == OtherTeamBidding.items[i]
                c == OtherTeamBidding.items[j]
            IN  (/\ n.bid.is_normal /\ Candidate(n)
                 /\ ~c.bid.is_normal /\ Candidate(c)
                 /\ n.team # c.team)
                => /\ Accepted
                   /\ CurrentBid'.team = c.team
                   /\ CurrentBid'.current_bid_amount = CurrentPrice + c.bid.raised_amount
                   /\ Round' = 0
       ]_vars

\* A round trademaster is about to adjudicate in which the normal raise comes
\* first and stands for the same amount as the custom raise (a 0.75 Cr raise
\* in the 0.75 Cr band), so that only the priority of custom raises decides.
C13_Witness ==
    /\ pc = "trademaster" /\ CurrentBid # NoneBid
    /\ Len(OtherTeamBidding.items) = 2
    /\ LET n == OtherTeamBidding.items[1]
           c == OtherTeamBidding.items[2]
       IN  /\ n.bid.is_normal /\ Candidate(n)
           /\ ~c.bid.is_normal /\ Candidate(c)
           /\ c.bid.raised_amount = get_raise_amount(CurrentPrice)

\* C14: a bid above the proposing team's budget is never accepted, while one
\* equal to the budget may be: the CurrentBid amount never exceeds the budget
\* of the team holding it, and a round never accepts a bid of a team whose
\* proposed amount is above its budget.
C14_BidWithinBudget ==
    /\ [](CurrentBid # NoneBid => CurrentBid.current_bid_amount <= Budget[CurrentBid.team])
    /\ [][(TrademasterReturns /\ Accepted)
          => /\ CurrentBid'.current_bid_amount <= Budget[CurrentBid'.team]
             /\ UNCHANGED Budget]_vars

\* A bid of exactly the holder's whole budget was accepted.
C14_Witness ==
    /\ Messages.node = "TRADEMASTER" /\ Messages.case \in {"First bid accepted", "Bid updated"}
    /\ pc = "host" /\ CurrentBid # NoneBid
    /\ CurrentBid.current_bid_amount = Budget[CurrentBid.team]

\* The auction is exhausted: no set remains, no lot remains in the set and no
\* lot is up.
Exhausted ==
    /\ RemainingSets = <<>>
    /\ RemainingPlayersInSet.none \/ RemainingPlayersInSet.items = <<>>
    /\ CurrentPlayer = "None"

\* C15: the router decides End exactly when RemainingSets is empty,
\* RemainingPlayersInSet is empty or None and CurrentPlayer is None; otherwise
\* host_assistant exactly when AuctionStatus is False; otherwise bidder_pool.
C15_HostDecision ==
    decision # "None" =>
        /\ decision = "__end__" <=> Exhausted
        /\ decision = "host_assistant" <=> (~Exhausted /\ AuctionStatus = FALSE)
        /\ decision = "bidder_pool" <=> (~Exhausted /\ AuctionStatus = TRUE)

\* The router was given an exhausted auction whose AuctionStatus is False, the
\* state on which the order of its two rules matters, and decided End.
C15_Witness ==
    /\ decision = "__end__" /\ pc # "host"
    /\ Exhausted /\ AuctionStatus = FALSE

C17_BidsClearedOnReturn ==
    [][TrademasterReturns => OtherTeamBidding' = EmptyDict]_vars

\* C18: in every reachable state CurrentPlayer = None implies CurrentBid =
\* None, and every trademaster call that accepts a new leading bid returns
\* with Round = 0.
C18_NoLotNoBidAndRoundReset ==
    /\ [](CurrentPlayer = "None" => CurrentBid = NoneBid)
    /\ [][(TrademasterReturns /\ Accepted) => Round' = 0]_vars

\* A counter-bid was accepted after a round had been counted, and the lot
\* before it left no CurrentBid behind.
C18_Witness ==
    /\ Messages.node = "TRADEMASTER" /\ Messages.case = "Bid updated"
    /\ Messages.round >= 1 /\ Round = 0 /\ pc = "host"
    /\ \E l \in Lots : player[l].status

\* A proposed bid that is not a raise, or a custom raise whose raised_amount
\* is missing (read as 0) or not positive.
Skipped(e) == ~e.bid.is_raise \/ (~e.bid.is_normal /\ e.bid.raised_amount <= 0)

\* C19: a proposed bid that is not a raise, or a custom raise with a missing
\* or non-positive raised_amount, does not make trademaster raise and is never
\* the accepted bid; the other bids of the round are still evaluated, so a
\* valid bid of another team in the same round is accepted.
C19_InvalidBidSkipped ==
    [][(pc = "trademaster" /\ CurrentPlayer # "None")
       => \A i \in 1..Len(OtherTeamBidding.items) :
            LET e == OtherTeamBidding.items[i]
            IN  Skipped(e) =>
                /\ pc' = "host"
                /\ ~(Accepted /\ CurrentBid'.team = e.team)
                /\ \A j \in 1..Len(OtherTeamBidding.items) :
                     LET o == OtherTeamBidding.items[j]
                     IN  Candidate(o) =>
                         /\ Accepted
                         /\ CurrentBid'.current_bid_amount >= CurrentPrice
                         /\ Len(OtherTeamBidding.items) = 2 => CurrentBid'.team = o.team
       ]_vars

\* A round trademaster is about to adjudicate that holds a custom raise
\* without an amount first and a valid raise of another team after it.
C19_Witness ==
    /\ pc = "trademaster" /\ CurrentPlayer # "None"
    /\ Len(OtherTeamBidding.items) = 2
    /\ LET e == OtherTeamBidding.items[1]
           o == OtherTeamBidding.items[2]
       IN  /\ e.bid.is_raise /\ ~e.bid.is_normal /\ e.bid.raised_amount = 0
           /\ Candidate(o)

\* C20: a trademaster call on a state whose CurrentPlayer is None raises an
\* error to the caller and returns no state.
C20_NoLotFailsFast ==
    [][(pc = "trademaster" /\ CurrentPlayer = "None")
       => /\ pc' \in {"ValueError", "TypeError"}
          /\ UNCHANGED <<AuctionStatus, CurrentPlayer, CurrentBid, OtherTeamBidding,
                         Round, Holdings, Budget, UnsoldPlayers, player, Messages>>]_vars

\* C21: a host_assistant call that starts a new set chooses a set of
\* RemainingSets that has at least one lot and removes it from RemainingSets
\* in the same step; the lot put up is one of that set's lots and is not in
\* RemainingPlayersInSet afterwards, which holds the set's other lots (None
\* when there is none); AuctionStatus is True afterwards.
C21_NewSetStarted ==
    [][(/\ pc = "host_assistant"
        /\ CurrentSet = "None" \/ RemainingPlayersInSet.none
                               \/ RemainingPlayersInSet.items = <<>>
        /\ \E s \in Range(RemainingSets) : RemainingPlayers[s] # <<>>)
       => /\ CurrentSet' \in Range(RemainingSets)
          /\ RemainingPlayers[CurrentSet'] # <<>>
          /\ CurrentSet' \notin Range(RemainingSets')
          /\ Range(RemainingSets') \subseteq Range(RemainingSets)
          /\ CurrentPlayer' \in Range(RemainingPlayers[CurrentSet'])
          /\ CurrentPlayer' \notin Range(RemainingPlayersInSet'.items)
          /\ Range(RemainingPlayersInSet'.items) =
                 Range(RemainingPlayers[CurrentSet']) \ {CurrentPlayer'}
          /\ RemainingPlayersInSet'.none = (RemainingPlayersInSet'.items = <<>>)
          /\ AuctionStatus' = TRUE]_vars

\* Set M1 (two lots) has just been started: one of its lots is up, the other
\* waits in RemainingPlayersInSet, and M1 has left RemainingSets.
C21_Witness ==
    /\ Messages.node = "HOST ASSISTANT" /\ pc = "host"
    /\ CurrentSet = "M1" /\ CurrentPlayer \in {"p1", "p2"}
    /\ Len(RemainingPlayersInSet.items) = 1 /\ AuctionStatus
    /\ "M1" \notin Range(RemainingSets)

\* C22: a host_assistant call made when no set has lots left raises nothing
\* and returns with CurrentPlayer = None, AuctionStatus = False, RemainingSets
\* empty and RemainingPlayersInSet = None, and the router's next decision on
\* that state is End.
C22_ExhaustionIsADecision ==
    /\ [][(/\ pc = "host_assistant"
           /\ RemainingPlayersInSet.none \/ RemainingPlayersInSet.items = <<>>
           /\ \A s \in Range(RemainingSets) : RemainingPlayers[s] = <<>>)
          => /\ pc' = "host"
             /\ CurrentPlayer' = "None"
             /\ AuctionStatus' = FALSE
             /\ RemainingSets' = <<>>
             /\ RemainingPlayersInSet' = NoneList]_vars
    /\ [][(/\ pc = "host"
           /\ Messages.node = "HOST ASSISTANT"
           /\ CurrentPlayer = "None")
          => decision' = "__end__"]_vars

\* The dispenser found nothing left and the router decided End on its state.
C22_Witness ==
    /\ Messages.node = "HOST ASSISTANT" /\ Messages.player = "None"
    /\ decision = "__end__" /\ pc # "host"
    /\ CurrentPlayer = "None" /\ ~AuctionStatus
    /\ RemainingSets = <<>> /\ RemainingPlayersInSet = NoneList

\* The sale generate_purchase_reason was called in: the call returned a text
\* or failed.
ReasonerCalled == TrademasterReturns /\ Messages'.reasoner # "not called"

\* C23: a finalization in which generate_purchase_reason fails completes the
\* sale as one in which it succeeds: the lot is marked sold, appended to the
\* winner's holdings, the winner's budget is debited by the final price and
\* the round state is reset; only reason_for_purchase differs, which keeps
\* its value on failure and holds the text on success.
C23_ReasonerFailureNotFatal ==
    [][ReasonerCalled
       => /\ SoldNow(CurrentBid.team, CurrentBid.current_bid_amount)
          /\ RoundStateReset
          /\ OtherTeamBidding' = EmptyDict
          /\ UNCHANGED UnsoldPlayers
          /\ \A l \in Lots \ {CurrentPlayer} : player'[l] = player[l]
          /\ player'[CurrentPlayer].reason_for_purchase =
                IF Messages'.reasoner = "error"
                THEN player[CurrentPlayer].reason_for_purchase
                ELSE "text"]_vars

\* A lot was sold in a finalization whose rationale call failed: it is in the
\* winner's holdings, paid for, and has no rationale.
C23_Witness ==
    /\ Messages.node = "TRADEMASTER" /\ Messages.reasoner = "error" /\ pc = "host"
    /\ LET l == Messages.player
       IN  /\ player[l].status
           /\ player[l].reason_for_purchase = "None"
           /\ l \in Range(Holdings[player[l].sold_team])
           /\ Budget[player[l].sold_team] = InitBudget - player[l].sold_price
    /\ CurrentPlayer = "None" /\ CurrentBid = NoneBid /\ Round = 0 /\ ~AuctionStatus

\* C24: every trademaster call that sells the current lot to the CurrentBid
\* holder calls generate_purchase_reason, whether the round limit was exceeded
\* by a round without proposed bids or by a round of invalid proposed bids.
C24_EverySaleHasRationaleCall ==
    [][(/\ TrademasterReturns
        /\ CurrentPlayer # "None"
        /\ player'[CurrentPlayer].status)
       => Messages'.reasoner # "not called"]_vars

\* The team_bid_history of the current lot.
History == player[CurrentPlayer].team_bid_history

\* C25: in an agent_pool call in which a team's decision call fails, the
\* round is not aborted and the failing team counts as passing: it proposes
\* nothing, the other eligible teams are still consulted until one raises,
\* and the raise of a team consulted after the failure is returned as the
\* round's proposed bid.
C25_FailedCallIsAPass ==
    [][(/\ pc = "bidder_pool"
        /\ CurrentPlayer # "None"
        /\ Messages'.errors # {})
       => LET checked == Messages'.checked
              errors == Messages'.errors
              after == player'[CurrentPlayer].team_bid_history
          IN  /\ pc' = "trademaster"
              /\ errors \subseteq eligible_teams
              /\ \A t \in errors : after[t] = History[t]
              /\ IF OtherTeamBidding'.kind = "CompetitiveBidInfo"
                 THEN LET b == OtherTeamBidding'.items[1]
                      IN  /\ b.team = checked[Len(checked)]
                          /\ b.team \in eligible_teams \ errors
                          /\ b.bid.is_raise
                          /\ after[b.team] = Append(History[b.team], "raise")
                 ELSE /\ OtherTeamBidding' = NoneBids
                      /\ Range(checked) = eligible_teams
                      /\ \A t \in Teams \ errors :
                            after[t] \in {History[t], Append(History[t], "pass")}
          ]_vars

\* The call of the first team consulted failed, and the raise of the team
\* consulted after it is the round's proposed bid.
C25_Witness ==
    /\ pc = "trademaster" /\ Messages.node = "AGENT POOL"
    /\ Len(Messages.checked) = 2
    /\ Messages.errors = {Messages.checked[1]}
    /\ OtherTeamBidding.kind = "CompetitiveBidInfo"
    /\ OtherTeamBidding.items[1].team = Messages.checked[2]

C27_BudgetChangesOnlyAtSale ==
    [][LET sale == /\ pc = "trademaster"
                   /\ CurrentPlayer # "None"
                   /\ ~player[CurrentPlayer].status
                   /\ player'[CurrentPlayer].status
       IN  /\ (Budget' # Budget \/ Holdings' # Holdings) => sale
           /\ sale =>
                /\ CurrentBid # NoneBid
                /\ player'[CurrentPlayer].sold_price = CurrentBid.current_bid_amount
                /\ Budget' = [Budget EXCEPT ![CurrentBid.team] =
                                 @ - CurrentBid.current_bid_amount]
                /\ Holdings' = [Holdings EXCEPT ![CurrentBid.team] =
                                   Append(@, CurrentPlayer)]
      ]_vars

\* Right after a first sale: the winner has paid the price of the lot, the
\* other team has its whole budget and no holdings.
C27_Witness ==
    /\ pc = "host" /\ Messages.node = "TRADEMASTER" /\ Messages.limit_exceeded
    /\ \E t \in Teams :
          /\ Len(Holdings[t]) = 1
          /\ player[Holdings[t][1]].sold_price > 0
          /\ Budget[t] = InitBudget - player[Holdings[t][1]].sold_price
          /\ \A u \in Teams \ {t} : Budget[u] = InitBudget /\ Holdings[u] = <<>>

\* The three proposed-bid shapes the invariant of the bid record allows.
ValidShape(a) ==
    \/ ~a.is_raise /\ a.raised_amount.none
    \/ a.is_raise /\ ~a.is_normal.none /\ a.is_normal.value /\ a.raised_amount.none
    \/ /\ a.is_raise /\ ~a.is_normal.none /\ ~a.is_normal.value
       /\ ~a.raised_amount.none /\ a.raised_amount.value > 0

\* C28: bidder_tool returns a success result that echoes its three arguments
\* exactly when the shape is valid (a pass without amount, a normal raise
\* without amount, a custom raise with a positive amount) and raises
\* ValueError for every other combination, a raise with is_normal None
\* included.
C28_ToolAcceptsExactlyValidShapes ==
    pc \in {"returned", "ValueError"} =>
        LET a == OtherTeamBidding.items[1]
        IN  /\ pc = "returned" <=> ValidShape(a)
            /\ pc = "ValueError" <=> ~ValidShape(a)
            /\ pc = "returned" =>
                  /\ Messages.status = "success"
                  /\ Messages.bid_decision = a
            /\ (a.is_raise /\ a.is_normal.none) => pc = "ValueError"

\* A raise with is_normal None and a positive amount was refused.
C28_Witness ==
    /\ pc = "ValueError"
    /\ OtherTeamBidding.kind = "BidderInput"
    /\ OtherTeamBidding.items[1].is_raise
    /\ OtherTeamBidding.items[1].is_normal.none
    /\ ~OtherTeamBidding.items[1].raised_amount.none
    /\ OtherTeamBidding.items[1].raised_amount.value > 0

\* C29: in a trademaster call on a lot with a CurrentBid that accepts no new
\* leading bid, Round is incremented and the lot is finalized if and only if
\* the new Round is greater than 3.
C29_FinalizeOnlyAboveThree ==
    [][(/\ pc = "trademaster" /\ pc' = "host"
        /\ CurrentPlayer # "None"
        /\ CurrentBid # NoneBid
        /\ CurrentBid' \in {CurrentBid, NoneBid})
       => (player'[CurrentPlayer].status <=> Round + 1 > 3)]_vars

\* C30: with no CurrentBid the minimum raise is zero: a round holding a custom
\* raise of a positive amount that agent_pool lets through (its minimum for a
\* first bid being 0) and whose price, base plus raise, is within the team's
\* budget accepts a bid, and when it is the only proposed bid it becomes the
\* CurrentBid at base price plus the raise.
C30_FirstCustomRaiseAccepted ==
    [][(/\ TrademasterReturns
        /\ CurrentPlayer # "None"
        /\ CurrentBid = NoneBid)
       => \A i \in 1..Len(OtherTeamBidding.items) :
            LET e == OtherTeamBidding.items[i]
                price == base_price[CurrentPlayer] + e.bid.raised_amount
            IN  (/\ e.bid.is_raise /\ ~e.bid.is_normal
                 /\ e.bid.raised_amount > 0
                 /\ pool_lets_through(e.bid, 0)
                 /\ price <= Budget[e.team])
                => /\ Accepted
                   /\ Len(OtherTeamBidding.items) = 1 =>
                        /\ CurrentBid'.team = e.team
                        /\ CurrentBid'.current_bid_amount = price
       ]_vars

\* C31: the trademaster call that follows an agent_pool round on a lot never
\* raises: when every team passed it takes the no-new-bids path (the lot goes
\* to UnsoldPlayers, or Round is incremented, or the sale is finalized at the
\* round limit), and when a team raised it evaluates that team's bid.
C31_PoolOutputIsProcessed ==
    [][(/\ pc = "trademaster"
        /\ Messages.node = "AGENT POOL"
        /\ CurrentPlayer # "None")
       => /\ pc' = "host"
          /\ OtherTeamBidding.kind = "None" =>
                \/ UnsoldPlayers' = Append(UnsoldPlayers, CurrentPlayer)
                \/ Round' = Round + 1
                \/ player'[CurrentPlayer].status
          /\ OtherTeamBidding.kind = "CompetitiveBidInfo" =>
                Messages'.case \in {"First bid accepted", "No valid bids found",
                                    "Bid updated", "No valid counter-bids"}
       ]_vars

\* C32: every value the router host returns is a key of the routing table of
\* its conditional edge, and when host decides that the auction is complete
\* the driver moves to END: the run never stops on an unknown route.
C32_EveryDecisionIsRouted ==
    /\ decision # "None" => decision \in DOMAIN RoutingTable
    /\ pc # "KeyError"
    /\ decision = "__end__" => pc = "END"

\* The amount a candidate entry of the mapping stands for.
CandidateAmount(e) ==
    IF e.bid.is_normal
    THEN (IF CurrentBid = NoneBid THEN CurrentPrice
          ELSE CurrentPrice + get_raise_amount(CurrentPrice))
    ELSE CurrentPrice + e.bid.raised_amount

\* The positions of the mapping that hold valid candidates.
Candidates == {i \in 1..Len(OtherTeamBidding.items) : Candidate(OtherTeamBidding.items[i])}

\* The position of the mapping whose team holds the new CurrentBid.
WinnerIndex ==
    CHOOSE i \in 1..Len(OtherTeamBidding.items) :
        OtherTeamBidding.items[i].team = CurrentBid'.team

\* C33 as stated: a round that accepts a bid accepts, among the valid
\* candidates having the accepted amount, the one that comes first in the
\* iteration order of the mapping.
C33_FirstOfEqualAmountWins ==
    [][(TrademasterReturns /\ CurrentPlayer # "None" /\ Accepted)
       => \A i \in Candidates :
             CandidateAmount(OtherTeamBidding.items[i]) = CurrentBid'.current_bid_amount
                => WinnerIndex <= i
      ]_vars

\* C33 amended: the new CurrentBid is a function of the state and the ordered
\* mapping: the winner is the first position, in iteration order, of maximal
\* amount among the valid custom raises when there is one, and among all valid
\* candidates otherwise; a custom raise wins over a normal raise of the same
\* amount wherever it stands in the mapping.
C33_WinnerIsDetermined ==
    [][(TrademasterReturns /\ CurrentPlayer # "None" /\ Accepted)
       => LET items == OtherTeamBidding.items
              Custom == {i \in Candidates : ~items[i].bid.is_normal}
              Pool == IF Custom # {} THEN Custom ELSE Candidates
              Top == {i \in Pool : \A j \in Pool :
                         CandidateAmount(items[j]) <= CandidateAmount(items[i])}
              w == CHOOSE i \in Top : \A j \in Top : i <= j
          IN  /\ Top # {}
              /\ CurrentBid'.team = items[w].team
              /\ CurrentBid'.current_bid_amount = CandidateAmount(items[w])
              /\ CurrentBid'.player = CurrentPlayer
              /\ CurrentBid'.current_raise_amount =
                    get_raise_amount(CandidateAmount(items[w]))
      ]_vars

\* A round to adjudicate in which both teams propose a normal raise, each
\* within its budget: two valid candidates of equal amount.
C33_Witness ==
    /\ pc = "trademaster" /\ CurrentPlayer # "None"
    /\ OtherTeamBidding.kind = "dict"
    /\ Candidates = {1, 2}
    /\ OtherTeamBidding.items[1].bid.is_normal
    /\ OtherTeamBidding.items[2].bid.is_normal
    /\ OtherTeamBidding.items[1].team = "DC"

C35_PriceOnlyGoesUp ==
    /\ [](\A l \in Lots : player[l].status => player[l].sold_price >= base_price[l])
    /\ [](CurrentBid # NoneBid =>
             CurrentBid.current_bid_amount >= base_price[CurrentBid.player])
    /\ [][(CurrentPlayer # "None" /\ CurrentBid' # NoneBid /\ CurrentBid' # CurrentBid)
          => IF CurrentBid = NoneBid
             THEN CurrentBid'.current_bid_amount >= base_price[CurrentPlayer]
             ELSE CurrentBid'.current_bid_amount > CurrentBid.current_bid_amount
         ]_vars

\* A lot sold after its price was raised at least twice above the base price.
C35_Witness ==
    \E l \in Lots :
        /\ player[l].status
        /\ player[l].sold_price >= base_price[l] + 20
        /\ Budget[player[l].sold_team] <= InitBudget - player[l].sold_price

\* C36: the bid accepted in a round has the maximum amount among all valid
\* candidates of that round: the priority given to custom raises never selects
\* a bid below a valid normal raise of the same round.
C36_AcceptedBidIsMaximal ==
    [][(TrademasterReturns /\ CurrentPlayer # "None" /\ Accepted)
       => /\ \A i \in Candidates :
                CandidateAmount(OtherTeamBidding.items[i])
                    <= CurrentBid'.current_bid_amount
          /\ \E i \in Candidates :
                /\ OtherTeamBidding.items[i].team = CurrentBid'.team
                /\ CandidateAmount(OtherTeamBidding.items[i])
                     = CurrentBid'.current_bid_amount
      ]_vars

\* A round to adjudicate holding a valid normal raise followed by a valid
\* custom raise of a higher amount.
C36_Witness ==
    /\ pc = "trademaster" /\ CurrentPlayer # "None"
    /\ OtherTeamBidding.kind = "dict"
    /\ Candidates = {1, 2}
    /\ OtherTeamBidding.items[1].bid.is_normal
    /\ ~OtherTeamBidding.items[2].bid.is_normal
    /\ CandidateAmount(OtherTeamBidding.items[2]) > CandidateAmount(OtherTeamBidding.items[1])

\* C37: a lot that has had a bid accepted is never moved to UnsoldPlayers and
\* ends up sold to the last holder of the CurrentBid at the last CurrentBid
\* amount: UnsoldPlayers grows only by the current lot in a step taken with
\* no CurrentBid, a CurrentBid is given up only by the sale of its lot to its
\* holder at its amount, and under fair scheduling every lot with a
\* CurrentBid is eventually sold.
C37_BidLotIsSold ==
    /\ [](CurrentBid # NoneBid =>
             /\ CurrentBid.player = CurrentPlayer
             /\ CurrentPlayer \notin Range(UnsoldPlayers))
    /\ [](\A l \in Range(UnsoldPlayers) : ~player[l].status)
    /\ [][/\ UnsoldPlayers' # UnsoldPlayers =>
                /\ CurrentBid = NoneBid
                /\ UnsoldPlayers' = Append(UnsoldPlayers, CurrentPlayer)
          /\ (CurrentBid # NoneBid /\ (CurrentBid' = NoneBid \/ CurrentPlayer' # CurrentPlayer)) =>
                /\ pc = "trademaster"
                /\ SoldNow(CurrentBid.team, CurrentBid.current_bid_amount)
                /\ CurrentBid' = NoneBid
         ]_vars
    /\ \A l \in Lots :
          (CurrentBid # NoneBid /\ CurrentBid.player = l) ~> player[l].status

\* A lot was sold, above its base price, to the team that held its last
\* CurrentBid.
C37_Witness ==
    /\ pc = "host" /\ Messages.node = "TRADEMASTER" /\ Messages.limit_exceeded
    /\ CurrentBid = NoneBid
    /\ player[Messages.player].status
    /\ player[Messages.player].sold_price > base_price[Messages.player]
    /\ Messages.player \in Range(Holdings[player[Messages.player].sold_team])

\* C38: at every router decision point AuctionStatus is True exactly when
\* there is a CurrentPlayer; the bidding node and trademaster are entered
\* only with an active lot, host_assistant only with none.
C38_StatusTracksLot ==
    /\ pc = "host" => (AuctionStatus <=> CurrentPlayer # "None")
    /\ pc \in {"bidder_pool", "trademaster"} => (AuctionStatus /\ CurrentPlayer # "None")
    /\ pc = "host_assistant" => (~AuctionStatus /\ CurrentPlayer = "None")

\* The router is about to decide in the middle of the bidding on a lot, after
\* an earlier lot was closed.
C38_Witness ==
    /\ pc = "host" /\ AuctionStatus /\ CurrentPlayer # "None"
    /\ CurrentBid # NoneBid /\ Round = 1
    /\ \E l \in Lots : Settled(l)

LotsOf(s) == Range(Catalog[s])

PutUp(l) == Settled(l) \/ CurrentPlayer = l

\* C40: sets are auctioned one at a time: the lot under bidding is a lot of
\* the CurrentSet; a set is selected only by host_assistant, only when every
\* lot of the set selected before has been put up and closed, and only if
\* none of its own lots has been put up yet, so no set is selected twice;
\* every lot put up is a lot of the set then current that was not put up
\* before.
C40_OneSetAtATime ==
    /\ [](CurrentPlayer # "None" =>
             (CurrentSet # "None" /\ CurrentPlayer \in LotsOf(CurrentSet)))
    /\ [](CurrentSet \notin Range(RemainingSets))
    /\ [][CurrentSet' # CurrentSet =>
             /\ pc = "host_assistant"
             /\ CurrentSet' # "None" =>
                   /\ CurrentSet' \in Range(RemainingSets)
                   /\ CurrentSet' \notin Range(RemainingSets')
                   /\ LotsOf(CurrentSet') # {}
                   /\ \A l \in LotsOf(CurrentSet') : ~PutUp(l)
                   /\ CurrentSet # "None" => \A l \in LotsOf(CurrentSet) : Settled(l)
         ]_vars
    /\ [][(pc = "host_assistant" /\ CurrentPlayer' # "None") =>
             /\ CurrentPlayer' \in LotsOf(CurrentSet')
             /\ ~PutUp(CurrentPlayer')
         ]_vars

\* The second set has been selected after both lots of M1 were put up and
\* closed, and its lot is up.
C40_Witness ==
    /\ pc = "host" /\ Messages.node = "HOST ASSISTANT"
    /\ CurrentSet = "M2" /\ CurrentPlayer = "p3"
    /\ Settled("p1") /\ Settled("p2")
    /\ RemainingSets = <<>>
====
